---- MODULE Spec2Model ----
(***************************************************************************)
(* The navigation / selection / deletion controller of rclone ncdu         *)
(* (cmd/ncdu/ncdu.go): the UI struct, its key handlers and the event loop  *)
(* of UI.Show, together with the scan engine and the storage backend it    *)
(* talks to.                                                               *)
(*                                                                         *)
(* Go slices are 0-based: cursor ranks, child indices and the contents of  *)
(* sortPerm keep their Go values, and At(s, i) reads s[i].                 *)
(***************************************************************************)
EXTENDS Integers, Sequences, FiniteSets, TLC

VARIABLES
    u,          \* the UI struct
    dirs,       \* the scan engine's in-memory tree: path of a read directory -> its entries
    deleted,    \* the storage backend: remotes removed by DeleteFile / Purge
    rootChan,   \* "ready" until the root has been received
    errChan,    \* "open" until the scan's result has been received
    updated,    \* TRUE while an update notification is pending
    pc,         \* "running", or how UI.Show ended: "quit", "error", "panic"
    keysLeft,   \* number of key presses the user still makes
    cancelled,  \* history: a menu-bearing popup was closed and no delete staged since
    last,       \* history: the event handled last and what its handler did
    data,       \* an ncduSort on its own: the entries' attributes, the sort flags, sortPerm
    loop        \* the main loop and the poller goroutine of UI.Show, step by step

vars == <<u, dirs, deleted, rootChan, errChan, updated, pc, keysLeft, cancelled, last,
          data, loop>>

-----------------------------------------------------------------------------
(* Bounds of the model *)

\* terminal height in rows; Draw shows TermHeight - 3 entries
TermHeight == 5
\* number of key presses in a session
MaxKeys == 4
\* number of key presses in a session of SpecDelete
MaxDeleteKeys == 6
\* largest size and largest object count of an entry in SpecSort
MaxSize == 2
MaxCount == 2

-----------------------------------------------------------------------------
(* The remote: one directory "a" holding one file, and two files *)

Nil == "<nil>"
fsName == "remote:"
WaitingPath == "Waiting for root..."
RootDir == ""

\* the listing the scan engine will discover, in discovery order
Listing == (RootDir :> <<"a", "b", "c">>) @@ ("a" :> <<"a/x">>)
DirNames == {"a"}
FileNames == {"b", "c", "a/x"}
Names == DirNames \cup FileNames

\* fs.Object.Size()
FileSize == ("b" :> 1) @@ ("c" :> 2) @@ ("a/x" :> 3)

\* order of the remotes as Go compares strings
NameOrder == ("a" :> 1) @@ ("a/x" :> 2) @@ ("b" :> 3) @@ ("c" :> 4)

\* the directory an entry is listed in
DirOf(name) == IF name = "a/x" THEN "a" ELSE RootDir

\* fspath.JoinRootPath(u.fsName, d.Path())
PathOf(d) == fsName \o d
Paths == {WaitingPath} \cup {PathOf(d) : d \in DOMAIN Listing}

-----------------------------------------------------------------------------
(* Slices *)

At(s, i) == s[i + 1]
InRange(s, i) == 0 <= i /\ i < Len(s)
RemoveAt(s, i) == [k \in 1..(Len(s) - 1) |-> IF k <= i THEN s[k] ELSE s[k + 1]]
Range(s) == {s[k] : k \in 1..Len(s)}

ZeroPos == [entry |-> 0, offset |-> 0]
NoEntries == [k \in {} |-> ZeroPos]

-----------------------------------------------------------------------------
(* scan.Dir *)

\* d.Entries()
Entries(t, d) == t[d]

\* d.Parent()
Parent(d) == IF d = RootDir THEN Nil ELSE RootDir

\* d.GetDir(i): the directory of entry i, nil for a file or an unread directory
GetDir(t, d, i) ==
    LET e == At(t[d], i)
    IN  IF e \in DirNames /\ e \in DOMAIN t THEN e ELSE Nil

RECURSIVE SumSize(_, _)
SumSize(t, ents) ==
    IF ents = <<>> THEN 0
    ELSE LET e == Head(ents)
             s == IF e \in FileNames THEN FileSize[e]
                  ELSE IF e \in DOMAIN t THEN SumSize(t, t[e]) ELSE 0
         IN  s + SumSize(t, Tail(ents))

RECURSIVE SumCount(_, _)
SumCount(t, ents) ==
    IF ents = <<>> THEN 0
    ELSE LET e == Head(ents)
             c == IF e \in FileNames THEN 1
                  ELSE IF e \in DOMAIN t THEN SumCount(t, t[e]) ELSE 0
         IN  c + SumCount(t, Tail(ents))

\* d.AttrI(i): cumulative size and object count of entry i
AttrI(t, d, i) ==
    LET e == At(t[d], i)
    IN  [Size  |-> SumSize(t, <<e>>),
         Count |-> SumCount(t, <<e>>),
         IsDir |-> e \in DirNames,
         Readable |-> e \in FileNames \/ e \in DOMAIN t]

\* d.Remove(i): drop entry i, and the directory node below it if there is one
Remove(t, d, i) ==
    LET e == At(t[d], i)
        keep == DOMAIN t \ (IF e \in DirNames THEN {e} ELSE {})
    IN  [p \in keep |-> IF p = d THEN RemoveAt(t[d], i) ELSE t[p]]

-----------------------------------------------------------------------------
(* The state a handler works on: the UI struct, the tree and the backend,  *)
(* the storage calls and tree removals made so far, the handler's result,  *)
(* and whether a Go runtime panic has ended the program.                   *)

World(ui, t, del) ==
    [u |-> ui, dirs |-> t, deleted |-> del, calls |-> <<>>, removed |-> <<>>,
     msg |-> "", err |-> FALSE, panic |-> FALSE]

Panic(w) == [w EXCEPT !.panic = TRUE]

\* run F on every outcome in S that has not panicked
Bind(S, F(_)) == UNION {IF w.panic THEN {w} ELSE F(w) : w \in S}

NoHandler == [kind |-> "none", dirPos |-> 0, dirEntry |-> Nil, cursorPos |-> ZeroPos]

-----------------------------------------------------------------------------
(* Sorting *)

\* ncduSort.Less on the attributes and names of the two entries compared
LessAttrs(ui, iattrs, jattrs, iname, jname) ==
    \* iAvgSize < jAvgSize, the averages being Size/Count, or 0 when Count = 0
    LET iNum == IF iattrs.Count > 0 THEN iattrs.Size ELSE 0
        iDen == IF iattrs.Count > 0 THEN iattrs.Count ELSE 1
        jNum == IF jattrs.Count > 0 THEN jattrs.Size ELSE 0
        jDen == IF jattrs.Count > 0 THEN jattrs.Count ELSE 1
        avgLess == iNum * jDen < jNum * iDen
        avgMore == iNum * jDen > jNum * iDen
    IN  IF ui.sortByName < 0 THEN iname > jname
        ELSE IF ui.sortByName > 0 THEN iname < jname
        ELSE IF ui.sortBySize < 0 THEN
            (IF iattrs.Size # jattrs.Size THEN iattrs.Size < jattrs.Size
             ELSE iname < jname)
        ELSE IF ui.sortBySize > 0 THEN
            (IF iattrs.Size # jattrs.Size THEN iattrs.Size > jattrs.Size
             ELSE iname < jname)
        ELSE IF ui.sortByCount < 0 THEN
            (IF iattrs.Count # jattrs.Count THEN iattrs.Count < jattrs.Count
             ELSE iname < jname)
        ELSE IF ui.sortByCount > 0 THEN
            (IF iattrs.Count # jattrs.Count THEN iattrs.Count > jattrs.Count
             ELSE iname < jname)
        ELSE IF ui.sortByAverageSize < 0 THEN
            (IF avgLess \/ avgMore THEN avgLess
             ELSE iattrs.Size < jattrs.Size)
        ELSE IF ui.sortByAverageSize > 0 THEN
            (IF avgLess \/ avgMore THEN avgMore
             ELSE iattrs.Size > jattrs.Size)
        ELSE iname < jname

\* ncduSort.Less on the child indices x = sortPerm[i], y = sortPerm[j]
Less(ui, t, x, y) ==
    LessAttrs(ui, AttrI(t, ui.d, x), AttrI(t, ui.d, y),
              NameOrder[At(ui.entries, x)], NameOrder[At(ui.entries, y)])

\* the orders sort.Sort may leave in sortPerm: every arrangement of 0..n-1 in
\* which no entry is Less than one placed before it
SortedPerms(ui, t) ==
    LET n == Len(ui.entries)
    IN  {p \in [1..n -> 0..(n - 1)] :
            /\ \A a, b \in 1..n : a # b => p[a] # p[b]
            /\ \A a, b \in 1..n : a < b => ~Less(ui, t, p[b], p[a])}

\* sortCurrentDir without the loop that fills invSortPerm
sortCurrentDirStaleInverse(w) ==
    LET n == Len(w.u.entries)
        base == IF Len(w.u.invSortPerm) < n THEN [k \in 1..n |-> 0]
                ELSE w.u.invSortPerm
    IN  {[w EXCEPT !.u.sortPerm = p, !.u.invSortPerm = base] :
            p \in SortedPerms(w.u, w.dirs)}

\* UI.sortCurrentDir
sortCurrentDir(w) ==
    LET n == Len(w.u.entries)
        base == IF Len(w.u.invSortPerm) < n THEN [k \in 1..n |-> 0]
                ELSE w.u.invSortPerm
        inv(p) == [k \in 1..Len(base) |->
                     IF k <= n THEN (CHOOSE r \in 0..(n - 1) : At(p, r) = k - 1)
                     ELSE base[k]]
    IN  {[w EXCEPT !.u.sortPerm = p, !.u.invSortPerm = inv(p)] :
            p \in SortedPerms(w.u, w.dirs)}

\* setCurrentDir keeping the selection and the visual select mode
setCurrentDirKeepsSelection(w, d) ==
    sortCurrentDir([w EXCEPT !.u.d = d,
                             !.u.entries = Entries(w.dirs, d),
                             !.u.path = PathOf(d)])

\* setCurrentDir starting the directory's viewport afresh
setCurrentDirResetsViewport(w, d) ==
    sortCurrentDir([w EXCEPT !.u.d = d,
                             !.u.entries = Entries(w.dirs, d),
                             !.u.path = PathOf(d),
                             !.u.dirPosMap[PathOf(d)] = ZeroPos,
                             !.u.selectedEntries = NoEntries,
                             !.u.visualSelectMode = FALSE])

\* UI.setCurrentDir
setCurrentDir(w, d) ==
    sortCurrentDir([w EXCEPT !.u.d = d,
                             !.u.entries = Entries(w.dirs, d),
                             !.u.path = PathOf(d),
                             !.u.selectedEntries = NoEntries,
                             !.u.visualSelectMode = FALSE])

\* toggleSort going back to off from the reverse direction
toggleSortOff(w, which) ==
    LET old == w.u[which]
        cleared == [w.u EXCEPT !.sortBySize = 0, !.sortByCount = 0,
                               !.sortByName = 0, !.sortByAverageSize = 0]
    IN  sortCurrentDir([w EXCEPT !.u =
            [cleared EXCEPT ![which] = IF old = 0 THEN 1 ELSE IF old > 0 THEN -1 ELSE 0]])

\* UI.toggleSort: which is the sort key pressed
toggleSort(w, which) ==
    LET old == w.u[which]
        cleared == [w.u EXCEPT !.sortBySize = 0, !.sortByCount = 0,
                               !.sortByName = 0, !.sortByAverageSize = 0]
    IN  sortCurrentDir([w EXCEPT !.u =
            [cleared EXCEPT ![which] = IF old = 0 THEN 1 ELSE -old]])

-----------------------------------------------------------------------------
(* Selection and the cursor *)

\* toggleSelectForCursor that only ever adds the entry at the cursor
toggleSelectForCursorAddsOnly(w) ==
    LET cursorPos == w.u.dirPosMap[w.u.path]
    IN  IF ~InRange(w.u.sortPerm, cursorPos.entry) THEN Panic(w)
        ELSE LET dirPos == At(w.u.sortPerm, cursorPos.entry)
             IN  IF ~InRange(w.u.entries, dirPos) THEN Panic(w)
                 ELSE LET key == At(w.u.entries, dirPos)
                          sel == w.u.selectedEntries
                      IN  [w EXCEPT !.u.selectedEntries =
                              [k \in DOMAIN sel \cup {key} |->
                                  IF k = key THEN cursorPos ELSE sel[k]]]

\* UI.toggleSelectForCursor
toggleSelectForCursor(w) ==
    LET cursorPos == w.u.dirPosMap[w.u.path]
    IN  IF ~InRange(w.u.sortPerm, cursorPos.entry) THEN Panic(w)
        ELSE LET dirPos == At(w.u.sortPerm, cursorPos.entry)
             IN  IF ~InRange(w.u.entries, dirPos) THEN Panic(w)
                 ELSE LET key == At(w.u.entries, dirPos)
                          sel == w.u.selectedEntries
                      IN  IF key \in DOMAIN sel
                          THEN [w EXCEPT !.u.selectedEntries =
                                   [k \in DOMAIN sel \ {key} |-> sel[k]]]
                          ELSE [w EXCEPT !.u.selectedEntries =
                                   [k \in DOMAIN sel \cup {key} |->
                                       IF k = key THEN cursorPos ELSE sel[k]]]

\* UI.move
move(w, d) ==
    IF w.u.d = Nil THEN w
    ELSE
    LET absD == IF d < 0 THEN -d ELSE d
        entries == Len(w.u.entries)
        old == w.u.dirPosMap[w.u.path]
        e1 == old.entry + d
        entry == IF e1 < 0 THEN 0 ELSE IF e1 >= entries THEN entries - 1 ELSE e1
        p == entry - old.offset
        o1 == IF p < 0 THEN old.offset - absD
              ELSE IF p >= w.u.dirListHeight THEN old.offset + absD
              ELSE old.offset
        offset == IF entries = 0 \/ o1 < 0 THEN 0
                  ELSE IF o1 >= entries THEN entries - 1 ELSE o1
        w1 == IF w.u.visualSelectMode THEN toggleSelectForCursor(w) ELSE w
    IN  IF w1.panic THEN w1
        ELSE [w1 EXCEPT !.u.dirPosMap[w.u.path] = [entry |-> entry, offset |-> offset]]

-----------------------------------------------------------------------------
(* Popups *)

\* UI.popupBox
popupBox(w, text) == [w EXCEPT !.u.boxText = text, !.u.showBox = TRUE]

\* UI.togglePopupBox
togglePopupBox(w, text) ==
    IF w.u.showBox /\ w.u.boxText = text THEN [w EXCEPT !.u.showBox = FALSE]
    ELSE popupBox(w, text)

\* UI.displayPath
displayPath(w) == togglePopupBox(w, <<"Current Path", w.u.path>>)

\* UI.moveBox
moveBox(w, to) ==
    IF Len(w.u.boxMenu) = 0 THEN w
    ELSE LET b == IF to > 0 THEN w.u.boxMenuButton + 1 ELSE w.u.boxMenuButton - 1
         IN  [w EXCEPT !.u.boxMenuButton =
                 IF b >= Len(w.u.boxMenu) THEN Len(w.u.boxMenu) - 1
                 ELSE IF b < 0 THEN 0 ELSE b]

-----------------------------------------------------------------------------
(* Storage backend: operations.DeleteFile and operations.Purge.  Either may *)
(* fail; a call that succeeds removes the remote.                           *)

Storage(w, op, key, ok) ==
    [w EXCEPT !.calls = Append(@, [op |-> op, key |-> key, ok |-> ok]),
              !.deleted = IF ok THEN @ \cup {key} ELSE @]

\* the primitive for an entry: DeleteFile for an fs.Object, Purge otherwise
Primitive(key) == IF key \in FileNames THEN "DeleteFile" ELSE "Purge"

-----------------------------------------------------------------------------
(* Deleting *)

\* UI.removeEntry
removeEntry(w, pos) ==
    IF w.u.d = Nil \/ ~InRange(w.dirs[w.u.d], pos) THEN {Panic(w)}
    ELSE setCurrentDir(
            [w EXCEPT !.dirs = Remove(w.dirs, w.u.d, pos),
                      !.removed = Append(@, [dir |-> w.u.d, pos |-> pos,
                                             name |-> At(w.dirs[w.u.d], pos)])],
            w.u.d)

\* UI.deleteSingle: stage the delete of the entry at the cursor
deleteSingle(w) ==
    LET cursorPos == w.u.dirPosMap[w.u.path]
    IN  IF ~InRange(w.u.sortPerm, cursorPos.entry) THEN Panic(w)
        ELSE
        LET dirPos == At(w.u.sortPerm, cursorPos.entry)
            dirEntry == At(w.u.entries, dirPos)
            isFile == dirEntry \in FileNames
            staged == [w EXCEPT
                !.u.boxMenu = <<"cancel", "confirm">>,
                !.u.boxMenuHandler =
                    [kind |-> IF isFile THEN "file" ELSE "dir",
                     dirPos |-> dirPos, dirEntry |-> dirEntry,
                     cursorPos |-> cursorPos]]
        IN  popupBox(staged,
                     IF isFile THEN <<"Delete this file?", PathOf(dirEntry)>>
                     ELSE <<"Purge this directory?",
                            "ALL files in it will be deleted", PathOf(dirEntry)>>)

\* singleHandler removing the entry before it looks at the backend's error
singleHandlerRemovesFirst(w, h, o, ok) ==
    IF o # 1 THEN {[w EXCEPT !.msg = "Aborted!"]}
    ELSE
    LET w1 == Storage(w, Primitive(h.dirEntry), h.dirEntry, ok)
        back(x) == {IF h.cursorPos.entry >= Len(x.u.entries)
                    THEN move(x, -1) ELSE x}
        done(x) == {IF ~ok THEN [x EXCEPT !.err = TRUE]
                    ELSE [x EXCEPT !.msg =
                            IF h.kind = "file" THEN "Successfully deleted file!"
                            ELSE "Successfully purged folder!"]}
    IN  Bind(Bind(removeEntry(w1, h.dirPos), back), done)

\* the closures deleteSingle stores in boxMenuHandler, called with option o;
\* ok is the backend's answer
singleHandler(w, h, o, ok) ==
    IF o # 1 THEN {[w EXCEPT !.msg = "Aborted!"]}
    ELSE
    LET w1 == Storage(w, Primitive(h.dirEntry), h.dirEntry, ok)
    IN  IF ~ok THEN {[w1 EXCEPT !.err = TRUE]}
        ELSE LET back(x) == {IF h.cursorPos.entry >= Len(x.u.entries)
                             THEN move(x, -1) ELSE x}
                 done(x) == {[x EXCEPT !.msg =
                                IF h.kind = "file" THEN "Successfully deleted file!"
                                ELSE "Successfully purged folder!"]}
             IN  Bind(Bind(removeEntry(w1, h.dirPos), back), done)

\* sort.Slice(positionsToDelete, >)
RECURSIVE sortDescending(_)
sortDescending(s) ==
    IF s = <<>> THEN <<>>
    ELSE LET m == CHOOSE i \in 1..Len(s) : \A j \in 1..Len(s) : s[j] <= s[i]
         IN  <<s[m]>> \o sortDescending(RemoveAt(s, m - 1))

\* for _, dirPos := range positionsToDelete { u.removeEntry(dirPos) }
RECURSIVE removeAll(_, _)
removeAll(w, positions) ==
    IF positions = <<>> THEN {w}
    ELSE LET rest(x) == removeAll(x, Tail(positions))
         IN  Bind(removeEntry(w, Head(positions)), rest)

\* the tail of the batch handler, once every selected entry is deleted
batchFinish(w, positionsToDelete) ==
    LET back(x) == {IF x.u.dirPosMap[x.u.path].entry >= Len(x.u.entries)
                    THEN move(x, -1) ELSE x}
        done(x) == {[x EXCEPT !.msg = "Successfully deleted all items!"]}
    IN  Bind(Bind(removeAll(w, sortDescending(positionsToDelete)), back), done)

\* for key, cursorPos := range u.selectedEntries { ... }: Go visits the keys
\* in any order, and the backend may fail any call
RECURSIVE batchLoop(_, _)
batchLoop(w, positionsToDelete) ==
    LET sel == w.u.selectedEntries
        visit(key) ==
            LET cursorPos == sel[key]
            IN  IF ~InRange(w.u.sortPerm, cursorPos.entry) THEN {Panic(w)}
                ELSE
                LET dirPos == At(w.u.sortPerm, cursorPos.entry)
                    dirEntry == At(w.u.entries, dirPos)
                    failed == [Storage(w, Primitive(dirEntry), dirEntry, FALSE)
                                  EXCEPT !.err = TRUE]
                    ok == [Storage(w, Primitive(dirEntry), dirEntry, TRUE)
                              EXCEPT !.u.selectedEntries =
                                  [k \in DOMAIN sel \ {key} |-> sel[k]]]
                IN  {failed} \cup batchLoop(ok, Append(positionsToDelete, dirPos))
    IN  IF DOMAIN sel = {} THEN batchFinish(w, positionsToDelete)
        ELSE UNION {visit(key) : key \in DOMAIN sel}

\* the closure deleteSelected stores in boxMenuHandler
batchHandler(w, o) ==
    IF o # 1 THEN {[w EXCEPT !.msg = "Aborted!"]}
    ELSE batchLoop(w, <<>>)

\* fmt.Sprintf("ALL %d items will be deleted", n)
ItemsText(n) ==
    IF n = 0 THEN "ALL 0 items will be deleted"
    ELSE IF n = 1 THEN "ALL 1 items will be deleted"
    ELSE IF n = 2 THEN "ALL 2 items will be deleted"
    ELSE IF n = 3 THEN "ALL 3 items will be deleted"
    ELSE "ALL 4 items will be deleted"

\* UI.deleteSelected: stage the delete of the selected entries
deleteSelected(w) ==
    popupBox([w EXCEPT !.u.boxMenu = <<"cancel", "confirm">>,
                       !.u.boxMenuHandler = [NoHandler EXCEPT !.kind = "batch"]],
             <<"Delete selected items?",
               ItemsText(Cardinality(DOMAIN w.u.selectedEntries))>>)

\* UI.delete
delete(w) ==
    IF w.u.d = Nil \/ Len(w.u.entries) = 0 THEN w
    ELSE IF DOMAIN w.u.selectedEntries # {} THEN deleteSelected(w)
    ELSE deleteSingle(w)

\* u.boxMenuHandler(u.f, u.path, u.boxMenuButton)
callHandler(w) ==
    LET h == w.u.boxMenuHandler
        o == w.u.boxMenuButton
    IN  IF h.kind = "none" THEN {Panic(w)}
        ELSE IF h.kind = "batch" THEN batchHandler(w, o)
        ELSE UNION {singleHandler(w, h, o, ok) : ok \in BOOLEAN}

\* UI.handleBoxOption
handleBoxOption(w) ==
    LET reset(x) ==
            {popupBox([x EXCEPT !.u.boxMenuButton = 0,
                                !.u.boxMenu = <<>>,
                                !.u.boxMenuHandler = NoHandler],
                      IF x.err THEN <<"error:", "err.Error()">>
                      ELSE <<"Finished:", x.msg>>)}
    IN  Bind(callHandler(w), reset)

-----------------------------------------------------------------------------
(* Navigation *)

\* UI.enter
enter(w) ==
    IF w.u.d = Nil \/ Len(w.u.entries) = 0 THEN {w}
    ELSE LET dirPos == w.u.dirPosMap[w.u.path]
         IN  IF ~InRange(w.u.sortPerm, dirPos.entry) THEN {Panic(w)}
             ELSE LET d == GetDir(w.dirs, w.u.d, At(w.u.sortPerm, dirPos.entry))
                  IN  IF d = Nil THEN {w} ELSE setCurrentDir(w, d)

\* UI.up
up(w) ==
    IF w.u.d = Nil THEN {w}
    ELSE IF Parent(w.u.d) # Nil THEN setCurrentDir(w, Parent(w.u.d))
    ELSE {w}

-----------------------------------------------------------------------------
(* UI.Draw: the part that acts on the state.  It fixes the height of the   *)
(* listing and slices u.sortPerm[dirPos.offset:].                          *)

Draw(w) ==
    LET dirPos == w.u.dirPosMap[w.u.path]
    IN  IF w.u.d # Nil /\ ~(0 <= dirPos.offset /\ dirPos.offset <= Len(w.u.sortPerm))
        THEN Panic(w)
        ELSE [w EXCEPT !.u.dirListHeight = TermHeight - 3]

\* NewUI
NewUI ==
    [root |-> Nil, d |-> Nil, path |-> WaitingPath,
     showBox |-> FALSE, boxText |-> <<>>, boxMenu |-> <<>>, boxMenuButton |-> 0,
     boxMenuHandler |-> NoHandler,
     entries |-> <<>>, sortPerm |-> <<>>, invSortPerm |-> <<>>,
     dirListHeight |-> 20, listing |-> FALSE, visualSelectMode |-> FALSE,
     sortByName |-> 0, sortBySize |-> 1, sortByCount |-> 0, sortByAverageSize |-> 0,
     dirPosMap |-> [p \in Paths |-> ZeroPos],
     selectedEntries |-> NoEntries]

\* no ncduSort under test
NoData == [attrs |-> <<>>, u |-> NewUI, sortPerm |-> <<>>, sorted |-> FALSE]

\* the loop and the poller taken as one: events are handled as they come
NoLoop == [main |-> "select", poller |-> "polling", key |-> Nil, ev |-> Nil,
           polled |-> <<>>, handled |-> <<>>, drawn |-> TRUE]

NoEvent == [ran |-> "none", option |-> 0,
            calls |-> <<>>, removed |-> <<>>, err |-> FALSE]

\* UI.Show up to the first select: the scan is started and the screen drawn.
\* The engine has listed the root and is about to hand it over.
Init ==
    /\ u = Draw(World([NewUI EXCEPT !.listing = TRUE], <<>>, {})).u
    /\ dirs = (RootDir :> Listing[RootDir])
    /\ deleted = {}
    /\ rootChan = "ready"
    /\ errChan = "open"
    /\ updated = TRUE
    /\ pc = "running"
    /\ keysLeft = MaxKeys
    /\ cancelled = FALSE
    /\ last = NoEvent
    /\ data = NoData
    /\ loop = NoLoop

-----------------------------------------------------------------------------
(* One turn of the main loop: a case of the select, then Draw *)

Here == World(u, dirs, deleted)

\* take one of the outcomes S of handling an event, and draw; ran is the kind of
\* boxMenuHandler the event called, if it called one
Turn(ran, S) ==
    \E w \in S :
        LET x == IF w.panic THEN w ELSE Draw(w)
        IN  /\ u' = x.u
            /\ dirs' = x.dirs
            /\ deleted' = x.deleted
            /\ pc' = IF x.panic THEN "panic" ELSE "running"
            /\ last' = [ran |-> ran,
                        option |-> IF ran = "none" THEN 0 ELSE u.boxMenuButton,
                        calls |-> x.calls, removed |-> x.removed, err |-> x.err]
            /\ UNCHANGED <<data, loop>>

\* a key press arrives on the events channel
Key(ran, S) ==
    /\ pc = "running"
    /\ keysLeft > 0
    /\ keysLeft' = keysLeft - 1
    /\ Turn(ran, S)
    /\ UNCHANGED <<rootChan, errChan, updated>>

\* the scan engine reads directory "a" and signals the change
ScanDir ==
    /\ pc = "running"
    /\ errChan = "open"
    /\ "a" \notin DOMAIN dirs
    /\ "a" \in Range(dirs[RootDir])
    /\ dirs' = dirs @@ ("a" :> Listing["a"])
    /\ updated' = TRUE
    /\ UNCHANGED <<u, deleted, rootChan, errChan, pc, keysLeft, cancelled, last, data, loop>>

\* the scan has nothing left to read
ScanComplete == "a" \in DOMAIN dirs \/ "a" \notin Range(dirs[RootDir])

\* case root = <-rootChan
RecvRoot ==
    /\ pc = "running"
    /\ rootChan = "ready"
    /\ rootChan' = "done"
    /\ Turn("none", setCurrentDir([Here EXCEPT !.u.root = RootDir], RootDir))
    /\ UNCHANGED <<errChan, updated, keysLeft, cancelled>>

\* RecvError going on with the loop after a fatal error
RecvErrorIgnored ==
    /\ pc = "running"
    /\ errChan = "open"
    /\ errChan' = "done"
    /\ last' = NoEvent
    /\ UNCHANGED <<u, dirs, deleted, rootChan, updated, pc, keysLeft, cancelled, data, loop>>

\* case err := <-errChan, err != nil
RecvError ==
    /\ pc = "running"
    /\ errChan = "open"
    /\ errChan' = "done"
    /\ pc' = "error"
    /\ last' = NoEvent
    /\ UNCHANGED <<u, dirs, deleted, rootChan, updated, keysLeft, cancelled, data, loop>>

\* case err := <-errChan, err == nil
RecvComplete ==
    /\ pc = "running"
    /\ errChan = "open"
    /\ ScanComplete
    /\ errChan' = "done"
    /\ Turn("none", {[Here EXCEPT !.u.listing = FALSE]})
    /\ UNCHANGED <<rootChan, updated, keysLeft, cancelled>>

\* RecvUpdated fetching the directory again instead of only sorting it
RecvUpdatedRefreshes ==
    /\ pc = "running"
    /\ updated
    /\ updated' = FALSE
    /\ Turn("none", IF u.d = Nil THEN sortCurrentDir(Here)
                    ELSE setCurrentDir(Here, u.d))
    /\ UNCHANGED <<rootChan, errChan, keysLeft, cancelled>>

\* case <-updated
RecvUpdated ==
    /\ pc = "running"
    /\ updated
    /\ updated' = FALSE
    /\ Turn("none", sortCurrentDir(Here))
    /\ UNCHANGED <<rootChan, errChan, keysLeft, cancelled>>

\* q, Esc, Ctrl-C with a popup showing
KeyClose ==
    /\ u.showBox
    /\ Key("none", {[Here EXCEPT !.u.showBox = FALSE]})
    /\ cancelled' = IF Len(u.boxMenu) > 0 THEN TRUE ELSE cancelled

\* q, Esc, Ctrl-C with no popup: break outer
KeyQuit ==
    /\ pc = "running"
    /\ keysLeft > 0
    /\ ~u.showBox
    /\ pc' = "quit"
    /\ keysLeft' = keysLeft - 1
    /\ last' = NoEvent
    /\ UNCHANGED <<u, dirs, deleted, rootChan, errChan, updated, cancelled, data, loop>>

\* down, j
KeyDown == Key("none", {move(Here, 1)}) /\ UNCHANGED cancelled

\* up, k
KeyUp == Key("none", {move(Here, -1)}) /\ UNCHANGED cancelled

\* PgDn
KeyPgdn == Key("none", {move(Here, u.dirListHeight)}) /\ UNCHANGED cancelled

\* PgUp
KeyPgup == Key("none", {move(Here, -u.dirListHeight)}) /\ UNCHANGED cancelled

\* left, h
KeyLeft ==
    /\ Key("none", IF u.showBox THEN {moveBox(Here, -1)} ELSE up(Here))
    /\ UNCHANGED cancelled

\* right, l
KeyRight ==
    /\ Key("none", IF u.showBox THEN {moveBox(Here, 1)} ELSE enter(Here))
    /\ UNCHANGED cancelled

\* Enter
KeyEnter ==
    /\ IF Len(u.boxMenu) > 0
       THEN Key(u.boxMenuHandler.kind, handleBoxOption(Here))
       ELSE Key("none", enter(Here))
    /\ UNCHANGED cancelled

\* the sort flags of UI
SortKeys == {"sortByName", "sortBySize", "sortByCount", "sortByAverageSize"}

\* one of n, s, C, A
KeySortBy(which) == Key("none", toggleSort(Here, which)) /\ UNCHANGED cancelled

\* n, s, C, A
KeySort == \E which \in SortKeys : KeySortBy(which)

\* v
KeySelect == Key("none", {toggleSelectForCursor(Here)}) /\ UNCHANGED cancelled

\* V
KeyVisual ==
    /\ Key("none", {[Here EXCEPT !.u.visualSelectMode = ~u.visualSelectMode]})
    /\ UNCHANGED cancelled

\* Y
KeyDisplayPath == Key("none", {displayPath(Here)}) /\ UNCHANGED cancelled

\* ?
KeyHelp == Key("none", {togglePopupBox(Here, <<"rclone ncdu">>)}) /\ UNCHANGED cancelled

\* d
KeyDelete ==
    /\ Key("none", {delete(Here)})
    /\ cancelled' = IF u.d = Nil \/ Len(u.entries) = 0 THEN cancelled ELSE FALSE

\* D
KeyDeleteSelected ==
    /\ Key("none", {deleteSelected(Here)})
    /\ cancelled' = FALSE

\* The select of the main loop, and the scan engine beside it.  The keys c, g,
\* a, u, y and Ctrl-L change only what Draw prints and are left out.
Next ==
    \/ ScanDir
    \/ RecvRoot
    \/ RecvError
    \/ RecvComplete
    \/ RecvUpdated
    \/ KeyClose
    \/ KeyQuit
    \/ KeyDown
    \/ KeyUp
    \/ KeyPgdn
    \/ KeyPgup
    \/ KeyLeft
    \/ KeyRight
    \/ KeyEnter
    \/ KeySort
    \/ KeySelect
    \/ KeyVisual
    \/ KeyDisplayPath
    \/ KeyHelp
    \/ KeyDelete
    \/ KeyDeleteSelected

Spec == Init /\ [][Next]_vars

\* Longer sessions of a user who only navigates, selects and deletes, while
\* the scan is still running
InitDelete ==
    /\ u = Draw(World([NewUI EXCEPT !.listing = TRUE], <<>>, {})).u
    /\ dirs = (RootDir :> Listing[RootDir])
    /\ deleted = {}
    /\ rootChan = "ready"
    /\ errChan = "open"
    /\ updated = TRUE
    /\ pc = "running"
    /\ keysLeft = MaxDeleteKeys
    /\ cancelled = FALSE
    /\ last = NoEvent
    /\ data = NoData
    /\ loop = NoLoop

NextDelete ==
    \/ ScanDir
    \/ RecvRoot
    \/ RecvUpdated
    \/ KeyClose
    \/ KeyDown
    \/ KeyLeft
    \/ KeyRight
    \/ KeyEnter
    \/ KeySelect
    \/ KeyDelete
    \/ KeyDeleteSelected

SpecDelete == InitDelete /\ [][NextDelete]_vars

-----------------------------------------------------------------------------
(* ncduSort on its own: three entries a, b, c with any sizes and counts,   *)
(* one sort flag set to +1 or -1, and sort.Sort applied to them            *)

\* the names of the entries 0, 1, 2
SortNames == <<"a", "b", "c">>

\* scan.Attrs, the fields Less reads
Attrs == [Size : 0..MaxSize, Count : 0..MaxCount]

\* ds.Less(i, j) for x = sortPerm[i], y = sortPerm[j]
DataLess(ds, x, y) ==
    LessAttrs(ds.u, At(ds.attrs, x), At(ds.attrs, y),
              NameOrder[At(SortNames, x)], NameOrder[At(SortNames, y)])

InitSort ==
    /\ \E at \in [1..Len(SortNames) -> Attrs], k \in SortKeys, dir \in {1, -1} :
          data = [attrs |-> at,
                  u |-> [[NewUI EXCEPT !.sortBySize = 0] EXCEPT ![k] = dir],
                  sortPerm |-> <<>>, sorted |-> FALSE]
    /\ u = Draw(World([NewUI EXCEPT !.listing = TRUE], <<>>, {})).u
    /\ dirs = (RootDir :> Listing[RootDir])
    /\ deleted = {}
    /\ rootChan = "ready"
    /\ errChan = "open"
    /\ updated = TRUE
    /\ pc = "running"
    /\ keysLeft = 0
    /\ cancelled = FALSE
    /\ last = NoEvent
    /\ loop = NoLoop

\* sort.Sort(&data) on sortPerm = 0, 1, 2
SortData ==
    /\ ~data.sorted
    /\ LET n == Len(data.attrs)
       IN  \E p \in [1..n -> 0..(n - 1)] :
              /\ \A a, b \in 1..n : a # b => p[a] # p[b]
              /\ \A a, b \in 1..n : a < b => ~DataLess(data, p[b], p[a])
              /\ data' = [data EXCEPT !.sortPerm = p, !.sorted = TRUE]
    /\ UNCHANGED <<u, dirs, deleted, rootChan, errChan, updated, pc, keysLeft,
                   cancelled, last, loop>>

NextSort == SortData

SpecSort == InitSort /\ [][NextSort]_vars

-----------------------------------------------------------------------------
(* UI.Show step by step: the main loop draws, waits in its select, and     *)
(* handles what it took; beside it the goroutine polls a key, sends it on  *)
(* the unbuffered channel events and waits on doneWithEvent.               *)
(*   loop.main    "draw", "select", "ack" (at doneWithEvent <- true),      *)
(*                "handle" (at the key switch)                             *)
(*   loop.poller  "polling" (in termbox.PollEvent), "sending" (at events   *)
(*                <- ev), "waiting" (at <-doneWithEvent)                   *)
(*   loop.key     the event the goroutine holds, loop.ev the one the main  *)
(*                loop holds                                               *)
(*   loop.polled, loop.handled   history: the keys polled and the keys     *)
(*                handled, in order                                        *)
(*   loop.drawn   history: Draw has run since the last event was handled   *)

\* number of key presses in a session of SpecLoop
MaxLoopKeys == 3

\* the keys pressed in SpecLoop: down, select, help, quit / close
LoopKeys == {"j", "v", "?", "q"}

InitLoop ==
    /\ u = [NewUI EXCEPT !.listing = TRUE]
    /\ dirs = (RootDir :> Listing[RootDir])
    /\ deleted = {}
    /\ rootChan = "ready"
    /\ errChan = "open"
    /\ updated = FALSE
    /\ pc = "running"
    /\ keysLeft = MaxLoopKeys
    /\ cancelled = FALSE
    /\ last = NoEvent
    /\ data = NoData
    /\ loop = [main |-> "draw", poller |-> "polling", key |-> Nil, ev |-> Nil,
               polled |-> <<>>, handled |-> <<>>, drawn |-> FALSE]

\* the main loop takes one of the outcomes S of a case of its select and goes
\* back to the top of the loop
Case(S) ==
    \E w \in S :
        /\ u' = w.u
        /\ dirs' = w.dirs
        /\ deleted' = w.deleted
        /\ pc' = IF w.panic THEN "panic" ELSE "running"

\* events <- termbox.PollEvent(): the user presses a key
Poll ==
    /\ pc = "running"
    /\ loop.poller = "polling"
    /\ keysLeft > 0
    /\ keysLeft' = keysLeft - 1
    /\ \E k \in LoopKeys :
          loop' = [loop EXCEPT !.poller = "sending", !.key = k,
                               !.polled = Append(@, k)]
    /\ UNCHANGED <<u, dirs, deleted, rootChan, errChan, updated, pc, cancelled,
                   last, data>>

\* the scan engine signals a change once more
Notify ==
    /\ pc = "running"
    /\ errChan = "open"
    /\ ~updated
    /\ updated' = TRUE
    /\ UNCHANGED <<u, dirs, deleted, rootChan, errChan, pc, keysLeft, cancelled,
                   last, data, loop>>

\* err := u.Draw() at the top of the loop
LoopDraw ==
    /\ pc = "running"
    /\ loop.main = "draw"
    /\ Case({Draw(Here)})
    /\ loop' = [loop EXCEPT !.main = "select", !.drawn = TRUE]
    /\ UNCHANGED <<rootChan, errChan, updated, keysLeft, cancelled, last, data>>

\* case root = <-rootChan
LoopRecvRoot ==
    /\ pc = "running"
    /\ loop.main = "select"
    /\ rootChan = "ready"
    /\ rootChan' = "done"
    /\ Case(setCurrentDir([Here EXCEPT !.u.root = RootDir], RootDir))
    /\ loop' = [loop EXCEPT !.main = "draw", !.drawn = FALSE]
    /\ UNCHANGED <<errChan, updated, keysLeft, cancelled, last, data>>

\* case err := <-errChan, err != nil
LoopRecvError ==
    /\ pc = "running"
    /\ loop.main = "select"
    /\ errChan = "open"
    /\ errChan' = "done"
    /\ pc' = "error"
    /\ UNCHANGED <<u, dirs, deleted, rootChan, updated, keysLeft, cancelled, last,
                   data, loop>>

\* case <-updated
LoopRecvUpdated ==
    /\ pc = "running"
    /\ loop.main = "select"
    /\ updated
    /\ updated' = FALSE
    /\ Case(sortCurrentDir(Here))
    /\ loop' = [loop EXCEPT !.main = "draw", !.drawn = FALSE]
    /\ UNCHANGED <<rootChan, errChan, keysLeft, cancelled, last, data>>

\* TakeEvent serving the update notifications first: the key is taken only
\* when no notification is pending
TakeEventAfterUpdates ==
    /\ pc = "running"
    /\ loop.main = "select"
    /\ loop.poller = "sending"
    /\ ~updated
    /\ loop' = [loop EXCEPT !.main = "ack", !.ev = loop.key,
                            !.poller = "waiting", !.key = Nil]
    /\ UNCHANGED <<u, dirs, deleted, rootChan, errChan, updated, pc, keysLeft,
                   cancelled, last, data>>

\* TakeEvent with a goroutine that polls on without waiting on doneWithEvent
TakeEventNoWait ==
    /\ pc = "running"
    /\ loop.main = "select"
    /\ loop.poller = "sending"
    /\ loop' = [loop EXCEPT !.main = "ack", !.ev = loop.key,
                            !.poller = "polling", !.key = Nil]
    /\ UNCHANGED <<u, dirs, deleted, rootChan, errChan, updated, pc, keysLeft,
                   cancelled, last, data>>

\* case ev := <-events, meeting events <- ev of the goroutine, which goes on
\* to <-doneWithEvent
TakeEvent ==
    /\ pc = "running"
    /\ loop.main = "select"
    /\ loop.poller = "sending"
    /\ loop' = [loop EXCEPT !.main = "ack", !.ev = loop.key,
                            !.poller = "waiting", !.key = Nil]
    /\ UNCHANGED <<u, dirs, deleted, rootChan, errChan, updated, pc, keysLeft,
                   cancelled, last, data>>

\* doneWithEvent <- true, meeting <-doneWithEvent of the goroutine, which goes
\* back to poll
Ack ==
    /\ pc = "running"
    /\ loop.main = "ack"
    /\ loop.poller = "waiting"
    /\ loop' = [loop EXCEPT !.main = "handle", !.poller = "polling"]
    /\ UNCHANGED <<u, dirs, deleted, rootChan, errChan, updated, pc, keysLeft,
                   cancelled, last, data>>

\* the key switch, for the keys of LoopKeys
Handle ==
    /\ pc = "running"
    /\ loop.main = "handle"
    /\ IF loop.ev = "q" /\ ~u.showBox
       THEN pc' = "quit" /\ UNCHANGED <<u, dirs, deleted>>
       ELSE Case(IF loop.ev = "q" THEN {[Here EXCEPT !.u.showBox = FALSE]}
                 ELSE IF loop.ev = "j" THEN {move(Here, 1)}
                 ELSE IF loop.ev = "v" THEN {toggleSelectForCursor(Here)}
                 ELSE {togglePopupBox(Here, <<"rclone ncdu">>)})
    /\ loop' = [loop EXCEPT !.main = "draw", !.drawn = FALSE, !.ev = Nil,
                            !.handled = Append(@, loop.ev)]
    /\ UNCHANGED <<rootChan, errChan, updated, keysLeft, cancelled, last, data>>

NextLoop ==
    \/ ScanDir
    \/ Notify
    \/ Poll
    \/ LoopDraw
    \/ LoopRecvRoot
    \/ LoopRecvError
    \/ LoopRecvUpdated
    \/ TakeEvent
    \/ Ack
    \/ Handle

SpecLoop == InitLoop /\ [][NextLoop]_vars

\* The select takes one of the ready cases at random, so a case that is ready
\* again and again is taken (strong fairness); the statements of the loop that
\* do not wait are executed (weak fairness).
LiveLoop ==
    /\ SpecLoop
    /\ SF_vars(TakeEvent)
    /\ WF_vars(LoopDraw)
    /\ WF_vars(Ack)
    /\ WF_vars(Handle)

-----------------------------------------------------------------------------
(* What the last key press did *)

\* this step handled a key press
KeyStep == keysLeft' < keysLeft

\* the key press just handled called a deleteSingle handler with "confirm"
SingleConfirmed(l) == l.ran \in {"file", "dir"} /\ l.option = 1

\* the key press just handled called the deleteSelected handler with "confirm"
BatchConfirmed(l) == l.ran = "batch" /\ l.option = 1

\* the tree t without the child key (and without the node below it)
TreeWithout(t, key) ==
    [p \in DOMAIN t \ {key} |-> SelectSeq(t[p], LAMBDA e : e # key)]

\* the cursor of the active directory is on one of its children
ValidCursor(ui) ==
    LET c == ui.dirPosMap[ui.path].entry
        n == Len(ui.entries)
    IN  IF n = 0 THEN c = 0 ELSE 0 <= c /\ c < n

\* the viewport of the active directory is as move is to leave it
ValidViewport(ui) ==
    LET c == ui.dirPosMap[ui.path].entry
        o == ui.dirPosMap[ui.path].offset
        n == Len(ui.entries)
    IN  /\ ValidCursor(ui)
        /\ 0 <= o /\ o <= (IF n = 0 THEN 0 ELSE n - 1)
        /\ 0 <= c - o /\ c - o < ui.dirListHeight

-----------------------------------------------------------------------------
(* C1: a confirmed batch delete that succeeds calls the backend exactly    *)
(* once for each child whose key is in the selection set at confirm time,  *)
(* for no other child, and removes exactly those children from the tree,   *)
(* whatever sort toggles and re-sorts came between selecting and           *)
(* confirming.                                                             *)
C1_BatchDeletesSelection ==
    [][(KeyStep /\ BatchConfirmed(last') /\ ~last'.err /\ pc' = "running") =>
        LET sel == DOMAIN u.selectedEntries
        IN  /\ Len(last'.calls) = Cardinality(sel)
            /\ {c.key : c \in Range(last'.calls)} = sel
            /\ Len(last'.removed) = Cardinality(sel)
            /\ {r.name : r \in Range(last'.removed)} = sel
            /\ deleted' = deleted \cup sel]_vars

(* C2: once a menu-bearing popup has been closed with q / Esc / Ctrl-C,    *)
(* and until a delete is staged again, the menu and the staged handler are *)
(* gone, and no key press calls the handler or the backend.                *)
C2_DismissIsCancel ==
    cancelled =>
        /\ u.boxMenu = <<>>
        /\ u.boxMenuHandler = NoHandler
        /\ last.ran = "none"
        /\ last.calls = <<>>

(* C3: a single delete stages the child shown at the cursor; when it is    *)
(* confirmed and the backend succeeds, that child is the one deleted from  *)
(* storage and the one removed from the tree, from the directory it is in, *)
(* and every other child of every directory stays.                         *)
C3_SingleRemovesDeleted ==
    [][/\ (KeyStep /\ u'.boxMenuHandler.kind \in {"file", "dir"}
              /\ u'.boxMenuHandler # u.boxMenuHandler) =>
            u'.boxMenuHandler.dirEntry =
                At(u.entries, At(u.sortPerm, u.dirPosMap[u.path].entry))
       /\ (KeyStep /\ SingleConfirmed(last') /\ ~last'.err) =>
            LET key == u.boxMenuHandler.dirEntry
            IN  /\ pc' = "running"
                /\ deleted' = deleted \cup {key}
                /\ Len(last'.removed) = 1
                /\ last'.removed[1].name = key
                /\ last'.removed[1].dir = DirOf(key)
                /\ dirs' = TreeWithout(dirs, key)]_vars

(* C4: a confirmed batch delete that succeeds removes the resolved child   *)
(* indices in strictly descending order, leaves in the directory exactly   *)
(* the children that were not selected, in discovery order, and leaves the *)
(* selection set empty.                                                    *)
C4_BatchRemovalOrder ==
    [][(KeyStep /\ BatchConfirmed(last') /\ ~last'.err /\ pc' = "running") =>
        LET sel == DOMAIN u.selectedEntries
            rm == last'.removed
        IN  /\ \A i \in 1..(Len(rm) - 1) : rm[i].pos > rm[i + 1].pos
            /\ u'.entries = SelectSeq(u.entries, LAMBDA e : e \notin sel)
            /\ u'.d # Nil => dirs'[u'.d] = u'.entries
            /\ DOMAIN u'.selectedEntries = {}]_vars

(* C5: a confirmed single delete that succeeds leaves the directory with   *)
(* one child less and its cursor on a valid rank (0 when no child is       *)
(* left), whatever moves and re-sorts were made while the popup showed.    *)
C5_CursorValidAfterDelete ==
    [][(KeyStep /\ SingleConfirmed(last') /\ ~last'.err /\ pc' = "running") =>
        /\ Len(u'.entries) = Len(u.entries) - 1
        /\ ValidCursor(u')]_vars

(* C6: a move by +1, -1, +visibleRows or -visibleRows on a valid viewport  *)
(* leaves the cursor in [0, childCount-1] (0 in a directory without        *)
(* children), the scroll offset in [0, max(0, childCount-1)], and the      *)
(* cursor inside the window of visibleRows rows.                           *)
C6_MoveKeepsViewport ==
    [][((KeyDown \/ KeyUp \/ KeyPgdn \/ KeyPgup) /\ ValidViewport(u)) =>
        (pc' = "running" => ValidViewport(u'))]_vars

(* C7: when the backend fails a confirmed single delete or purge, a popup  *)
(* with the error text and no menu shows, the session keeps running, the   *)
(* tree, the current directory, every viewport and the selection set are   *)
(* as before the confirm, and the backend was called once.                 *)
C7_FailedSingleDelete ==
    [][(KeyStep /\ SingleConfirmed(last') /\ last'.err) =>
        /\ pc' = "running"
        /\ u'.showBox
        /\ u'.boxText = <<"error:", "err.Error()">>
        /\ u'.boxMenu = <<>>
        /\ u'.boxMenuHandler = NoHandler
        /\ dirs' = dirs
        /\ deleted' = deleted
        /\ u'.d = u.d /\ u'.path = u.path /\ u'.entries = u.entries
        /\ u'.dirPosMap = u.dirPosMap
        /\ u'.selectedEntries = u.selectedEntries
        /\ Len(last'.calls) = 1]_vars

\* a confirmed single delete has just failed
C7_Witness == SingleConfirmed(last) /\ last.err /\ pc = "running" /\ u.showBox

(* C8: a confirmed batch delete that fails stops at the first failing      *)
(* backend call, and the entries deleted before it are no longer children  *)
(* of the directory in the tree.                                           *)
C8_PartialBatchVisible ==
    (BatchConfirmed(last) /\ last.err) =>
        LET n == Len(last.calls)
        IN  /\ n >= 1
            /\ ~last.calls[n].ok
            /\ \A i \in 1..(n - 1) :
                  /\ last.calls[i].ok
                  /\ last.calls[i].key \notin Range(u.entries)
                  /\ last.calls[i].key \notin Range(dirs[u.d])

(* C9: once a fatal discovery error has been received the loop has ended   *)
(* with that error; and as long as the root has not been received, also    *)
(* at that end, setCurrentDir has not run: no current directory, no path,  *)
(* no entries.                                                             *)
C9_FatalErrorEndsLoop ==
    /\ (errChan = "done" /\ u.listing) => pc = "error"
    /\ rootChan = "ready" =>
          /\ u.d = Nil /\ u.root = Nil
          /\ u.path = WaitingPath
          /\ u.entries = <<>> /\ u.sortPerm = <<>>

\* the fatal error arrived before the root, after some key presses
C9_Witness == pc = "error" /\ rootChan = "ready" /\ keysLeft < MaxKeys

(* C10: the loop ends only on q / Esc / Ctrl-C with no popup showing or on *)
(* a fatal discovery error; with a popup showing the quit key only closes  *)
(* it; normal completion only clears the listing flag, which stays         *)
(* cleared, and the loop goes on.                                          *)
C10_OnlyQuitOrErrorEnds ==
    [][/\ (pc = "running" /\ pc' # "running") => (KeyQuit \/ RecvError)
       /\ KeyQuit => (~u.showBox /\ pc' = "quit")
       /\ KeyClose => (pc' = "running" /\ ~u'.showBox)
       /\ RecvComplete =>
            (pc' = "running" /\ u' = [u EXCEPT !.listing = FALSE] /\ dirs' = dirs)
       /\ ~u.listing => ~u'.listing]_vars

(* C11: in every state exactly one of the four sort keys is non-zero;      *)
(* pressing the key of an inactive sort sets it to +1 and the others to 0, *)
(* pressing the key of the active sort flips its sign and never sets it    *)
(* to 0.                                                                   *)
C11_OneSortKeyActive ==
    /\ [](Cardinality({k \in SortKeys : u[k] # 0}) = 1)
    /\ [][\A which \in SortKeys : KeySortBy(which) =>
            /\ u'[which] = (IF u[which] = 0 THEN 1 ELSE -u[which])
            /\ u'[which] \in {1, -1}
            /\ \A k \in SortKeys \ {which} : u'[k] = 0]_vars

\* n was pressed while size was active, and then pressed again: name is in
\* reverse direction and size is off
C11_Witness == u.sortByName = -1 /\ u.sortBySize = 0 /\ u.d # Nil

\* the sort key that is active in the flags of ui
ActiveKey(ui) == CHOOSE k \in SortKeys : ui[k] # 0

\* the comparator of the sort engine: entry x is shown before entry y.  The
\* name is compared in the key's direction; size, count and average size
\* (size / count, 0 when count = 0) are compared in the key's direction, +1
\* showing the larger first, and an exact tie goes to the ascending name.
ShownBefore(ds, x, y) ==
    LET k == ActiveKey(ds.u)
        dir == ds.u[k]
        ax == At(ds.attrs, x)
        ay == At(ds.attrs, y)
        nx == NameOrder[At(SortNames, x)]
        ny == NameOrder[At(SortNames, y)]
        \* the attributes as fractions num / den
        numx == IF k = "sortBySize" THEN ax.Size
                ELSE IF k = "sortByCount" THEN ax.Count
                ELSE IF ax.Count > 0 THEN ax.Size ELSE 0
        denx == IF k = "sortByAverageSize" /\ ax.Count > 0 THEN ax.Count ELSE 1
        numy == IF k = "sortBySize" THEN ay.Size
                ELSE IF k = "sortByCount" THEN ay.Count
                ELSE IF ay.Count > 0 THEN ay.Size ELSE 0
        deny == IF k = "sortByAverageSize" /\ ay.Count > 0 THEN ay.Count ELSE 1
    IN  IF k = "sortByName" THEN (IF dir > 0 THEN nx < ny ELSE nx > ny)
        ELSE IF numx * deny = numy * denx THEN nx < ny
        ELSE IF dir > 0 THEN numx * deny > numy * denx
        ELSE numx * deny < numy * denx

(* C12: for every sort key and direction, the order sort.Sort leaves is    *)
(* the one of the comparator: the key's attribute in the key's direction,  *)
(* every exact tie on a numeric attribute going to the ascending name; and *)
(* no two distinct entries compare equal under Less.                       *)
C12_ComparatorOrder ==
    data.sorted =>
        LET n == Len(data.sortPerm)
        IN  /\ \A a, b \in 1..n :
                  a < b => ShownBefore(data, data.sortPerm[a], data.sortPerm[b])
            /\ \A x, y \in 0..(n - 1) :
                  x # y => (DataLess(data, x, y) \/ DataLess(data, y, x))

\* one of the four move keys
MoveKey == KeyDown \/ KeyUp \/ KeyPgdn \/ KeyPgup

(* C13: in visual select mode every move toggles, in the selection set,    *)
(* the entry on which the cursor lands, the cursor's entry once the move   *)
(* has been applied, also for a page jump.                                 *)
C13_VisualMoveTogglesLanding ==
    [][(MoveKey /\ u.visualSelectMode /\ Len(u.entries) > 0 /\ pc' = "running") =>
        LET landing == At(u.entries, At(u.sortPerm, u'.dirPosMap[u.path].entry))
            sel == DOMAIN u.selectedEntries
        IN  DOMAIN u'.selectedEntries =
                (IF landing \in sel THEN sel \ {landing} ELSE sel \cup {landing})]_vars

(* C14: in every state each key of the selection set is a child of the     *)
(* active directory, in the cached list and in the tree; and every change  *)
(* of the active directory (enter, ascend, root arrival, refresh after a   *)
(* deletion) leaves the selection set empty and visual select mode off.    *)
C14_SelectionScoped ==
    /\ [](/\ u.d = Nil => DOMAIN u.selectedEntries = {}
          /\ u.d # Nil => /\ DOMAIN u.selectedEntries \subseteq Range(u.entries)
                          /\ DOMAIN u.selectedEntries \subseteq Range(dirs[u.d]))
    /\ [][(pc' = "running" /\ (u'.d # u.d \/ (KeyStep /\ Len(last'.removed) > 0))) =>
            /\ DOMAIN u'.selectedEntries = {}
            /\ ~u'.visualSelectMode]_vars

\* a batch of selected entries has been deleted and the directory refreshed
C14_Witness ==
    /\ BatchConfirmed(last) /\ ~last.err /\ Len(last.removed) > 0
    /\ pc = "running"
    /\ DOMAIN u.selectedEntries = {}

(* C15: the viewport is kept per directory and found again on a revisit:   *)
(* a step changes no viewport record but the one of the directory that is  *)
(* active, so the record of a directory stays as it is while a child is    *)
(* visited and moved in; and a step that switches the directory (enter,    *)
(* ascend, root arrival) changes no record at all.                         *)
C15_ViewportPerDirectory ==
    [][/\ \A p \in Paths \ {u.path} : u'.dirPosMap[p] = u.dirPosMap[p]
       /\ u'.d # u.d => u'.dirPosMap = u.dirPosMap]_vars

\* directory a is visited while the cursor of the root is on its last entry
C15_Witness ==
    /\ u.d = "a" /\ pc = "running"
    /\ u.dirPosMap[PathOf(RootDir)].entry = 2
    /\ keysLeft = 0

(* C16: whenever a delete request stages the cancel / confirm popup the    *)
(* highlighted option is cancel (index 0), whatever popups were staged,    *)
(* navigated and dismissed before; and while a menu is present the         *)
(* highlighted index is within [0, number of options - 1].                 *)
C16_StagedOnCancel ==
    /\ [](Len(u.boxMenu) > 0 =>
            (0 <= u.boxMenuButton /\ u.boxMenuButton < Len(u.boxMenu)))
    /\ [][(/\ \/ KeyDeleteSelected
               \/ (KeyDelete /\ u.d # Nil /\ Len(u.entries) > 0)
            /\ pc' = "running") =>
            /\ u'.showBox
            /\ u'.boxMenu = <<"cancel", "confirm">>
            /\ u'.boxMenuButton = 0]_vars

(* C17: toggling the selection of the entry at the cursor changes the      *)
(* membership of that key only, and toggling it a second time, with no     *)
(* directory change in between, gives back the selection set there was:    *)
(* the same keys, and the very same set when the key was not selected.     *)
C17_ToggleInvolution ==
    [][(KeySelect /\ pc' = "running") =>
        LET key == At(u.entries, At(u.sortPerm, u.dirPosMap[u.path].entry))
            sel == DOMAIN u.selectedEntries
            again == toggleSelectForCursor(World(u', dirs', deleted'))
        IN  /\ DOMAIN u'.selectedEntries =
                  (IF key \in sel THEN sel \ {key} ELSE sel \cup {key})
            /\ \A k \in sel \ {key} : u'.selectedEntries[k] = u.selectedEntries[k]
            /\ ~again.panic
            /\ DOMAIN again.u.selectedEntries = sel
            /\ key \notin sel => again.u = u]_vars

\* v has been pressed once on an entry of the root
C17_Witness ==
    /\ DOMAIN u.selectedEntries # {}
    /\ keysLeft = MaxKeys - 1
    /\ pc = "running"

(* C18: in every state of a running session the viewport record of the     *)
(* active directory has 0 <= cursorIndex < childCount (cursorIndex =       *)
(* scrollOffset = 0 in a directory without children), 0 <= scrollOffset    *)
(* <= cursorIndex, and cursorIndex - scrollOffset < visibleRows.           *)
C18_ViewportAlwaysValid ==
    pc = "running" =>
        LET c == u.dirPosMap[u.path].entry
            o == u.dirPosMap[u.path].offset
            n == Len(u.entries)
        IN  /\ IF n = 0 THEN c = 0 /\ o = 0 ELSE 0 <= c /\ c < n
            /\ 0 <= o /\ o <= c
            /\ c - o < u.dirListHeight

(* C19: the sort permutation has the length of the child list and is a     *)
(* bijection on [0, n), the inverse has inverse[permutation[i]] = i for    *)
(* all i < n, and, when no attribute has changed since it was computed,    *)
(* computing it again gives the identical permutation.                     *)
C19_PermutationValid ==
    LET n == Len(u.entries)
    IN  /\ Len(u.sortPerm) = n
        /\ Range(u.sortPerm) = 0..(n - 1)
        /\ Len(u.invSortPerm) >= n
        /\ \A i \in 0..(n - 1) : At(u.invSortPerm, At(u.sortPerm, i)) = i
        /\ ~updated =>
              \A w \in sortCurrentDir(Here) :
                  /\ w.u.sortPerm = u.sortPerm
                  /\ w.u.invSortPerm = u.invSortPerm

\* the root has been sorted again after directory a was read
C19_Witness ==
    /\ u.d = RootDir /\ ~updated /\ "a" \in DOMAIN dirs
    /\ u.sortPerm = <<0, 2, 1>>
    /\ pc = "running"

(* C20: handling an update notification only computes the sort permutation *)
(* and its inverse again: the active directory, its cached child list,     *)
(* every viewport record, the selection set, visual select mode, the sort  *)
(* keys and the popup and its menu are as before, and so are the tree and  *)
(* the remote; also before the root has arrived and while a confirmation   *)
(* popup is staged.                                                        *)
C20_UpdateOnlySorts ==
    [][(updated /\ ~updated') =>
        /\ pc' = "running"
        /\ u' = [u EXCEPT !.sortPerm = u'.sortPerm, !.invSortPerm = u'.invSortPerm]
        /\ u'.sortPerm \in SortedPerms(u, dirs)
        /\ dirs' = dirs
        /\ deleted' = deleted
        /\ keysLeft' = keysLeft]_vars

\* the update for directory a has been handled with entries selected and the
\* confirmation popup staged
C20_Witness ==
    /\ ~updated /\ "a" \in DOMAIN dirs
    /\ u.showBox /\ u.boxMenu = <<"cancel", "confirm">>
    /\ DOMAIN u.selectedEntries # {}
    /\ pc = "running"

(* C21: with a select that is fair to the ready sources, every key the    *)
(* goroutine has polled is handled by the main loop in the end, unless the *)
(* session is over before, also when update notifications never stop; and *)
(* the loop takes an event only after it has drawn the state the event     *)
(* before it left.                                                         *)
C21_KeysEventuallyHandled ==
    /\ \A n \in 1..MaxLoopKeys :
          (Len(loop.polled) >= n) ~> (Len(loop.handled) >= n \/ pc # "running")
    /\ [](loop.main = "select" => loop.drawn)
    /\ [][(loop.main = "select" /\ loop'.main # "select") => loop.drawn]_vars

\* every key of the session has been handled, with a notification pending
C21_Witness ==
    /\ Len(loop.handled) = MaxLoopKeys
    /\ updated
    /\ pc = "running"

(* C22: no key press indexes the sort permutation or the child list out of *)
(* range: the session never ends in a runtime panic, also not for v, moves *)
(* in visual select mode, enter and delete before the root has arrived, in *)
(* a directory without children, or after a deletion.                      *)
C22_NoIndexOutOfRange == pc # "panic"

\* the keys the goroutine has polled that the main loop has not taken yet
Outstanding ==
    Len(loop.polled) - Len(loop.handled) - (IF loop.ev # Nil THEN 1 ELSE 0)

(* C23: the hand-off between the goroutine and the main loop never         *)
(* deadlocks: when the main loop sends on doneWithEvent the goroutine is   *)
(* waiting for it; the keys are handled once each and in the order polled; *)
(* the goroutine never holds more than one key the loop has not taken; and *)
(* a step of the goroutine leaves the UI state alone.                      *)
C23_HandOff ==
    /\ [](/\ loop.main = "ack" => loop.poller = "waiting"
          /\ loop.poller = "waiting" => loop.main = "ack"
          /\ Len(loop.handled) <= Len(loop.polled)
          /\ loop.handled = SubSeq(loop.polled, 1, Len(loop.handled))
          /\ loop.ev # Nil => loop.ev = loop.polled[Len(loop.handled) + 1]
          /\ Outstanding \in {0, 1}
          /\ Outstanding = 1 <=> loop.poller = "sending"
          /\ loop.poller = "sending" => loop.key = loop.polled[Len(loop.polled)])
    /\ [][loop'.main = loop.main => u' = u]_vars

\* the goroutine holds the next key while the main loop handles the one before
C23_Witness ==
    /\ loop.main = "handle"
    /\ loop.poller = "sending"
    /\ Len(loop.handled) >= 1
    /\ pc = "running"

====
